---- MODULE Spec2Model ----
(***************************************************************************)
(* Chat backend (GraphQL server with graphql-shield rules, a Prisma data   *)
(* store and a PubSub topic bus).  The model follows the server with       *)
(* subscriptions: context construction (getUser), the permissions table,   *)
(* and the resolvers, one step per await of a resolver, so that requests   *)
(* interleave as they do on the event loop.                                *)
(***************************************************************************)
EXTENDS Integers, Sequences, FiniteSets, Bags, TLC

\* ------------------------------------------------------------- bounds
\* Requests the server receives in one run; any number of them may be in
\* flight at a time, interleaved between their awaits.
MaxOps == 2

\* ------------------------------------------------------------- values
\* process.env.APP_SECRET, and a key that is not the server's.
APP_SECRET == "APP_SECRET"
OtherSecret == "other-secret"

Conversations == {1, 2}
Nicknames == {"alice", "carol"}
Bodies == {"hi"}

\* JavaScript null for ctx.user, as a record so that it compares with users.
Null == [id |-> -1, nickname |-> "null"]
NoId == Null.id
NoNick == "-"
NoBody == "-"

\* The users and participant sets the store holds when the server starts
\* (conversations are created outside the server: it has no such mutation).
InitUsers == {[id |-> 1, nickname |-> "alice"], [id |-> 2, nickname |-> "bob"]}
InitParticipants == (1 :> {1}) @@ (2 :> {2})
\* A user deleted from the store before the server started.
GhostUser == [id |-> 9, nickname |-> "dave"]

\* ------------------------------------------------------------- jsonwebtoken
\* sign(payload, secret): the payload with a signature made with secret.
sign(payload, secret) ==
  [wellformed |-> TRUE, id |-> payload.id, nickname |-> payload.nickname,
   sig |-> secret]

\* verify(token, secret): the payload, or a throw when the token is
\* malformed or its signature was not made with secret.
verify(token, secret) ==
  IF token.wellformed /\ token.sig = secret
  THEN [threw |-> FALSE, id |-> token.id]
  ELSE [threw |-> TRUE, id |-> NoId]

NoToken == [wellformed |-> FALSE, id |-> NoId, nickname |-> NoNick, sig |-> "-"]

\* Tokens clients hold when the server starts: issued by earlier runs (they
\* do not expire), one of them to a user since deleted, and one forged.
AliceToken == sign([id |-> 1, nickname |-> "alice"], APP_SECRET)
BobToken == sign([id |-> 2, nickname |-> "bob"], APP_SECRET)
GhostToken == sign(GhostUser, APP_SECRET)
ForgedToken == sign([id |-> 1, nickname |-> "alice"], OtherSecret)

\* An Authorization header value: absent (undefined), or a scheme prefix
\* followed by a token.
Absent == [present |-> FALSE, scheme |-> "", token |-> NoToken]
Header(scheme, token) == [present |-> TRUE, scheme |-> scheme, token |-> token]

\* authorization.replace("Bearer ", ""): the literal prefix is removed, any
\* other text stays.
replaceBearer(authorization) ==
  IF authorization.scheme = "Bearer "
  THEN [authorization EXCEPT !.scheme = ""]
  ELSE authorization

\* The string handed to verify is a token only when nothing but the token
\* is left of the header value.
tokenOf(stripped) ==
  IF stripped.scheme = "" THEN stripped.token
  ELSE [stripped.token EXCEPT !.wellformed = FALSE]

VARIABLES
  users,         \* store: the User records
  participants,  \* store: conversation id -> ids of its participants
  messages,      \* store: the Message records
  subscribers,   \* pubsub: subscription id -> [topic, active], and the
                 \* conversation its message(conversation) asked for
  streams,       \* pubsub: subscription id -> events delivered, in order
  req,           \* the requests in flight: a bag of request records
  nops,          \* requests received so far
  issued,        \* what signin returned to clients: [token, id]
  joined         \* <<user id, conversation id>> of the completed joins

vars ==
  <<users, participants, messages, subscribers, streams, req, nops, issued, joined>>

store == <<users, participants, messages>>
pubsub == <<subscribers, streams>>

\* ------------------------------------------------------------- requests
\* A resolver's local that holds either a boolean or a Promise of one.
Bool(b) == [promise |-> FALSE, value |-> b]
Promise(b) == [promise |-> TRUE, value |-> b]
\* JavaScript's !x: a Promise is an object, and every object is truthy.
Not(x) == IF x.promise THEN FALSE ELSE ~x.value

NoMessage == [id |-> NoId, author |-> NoId, conversation |-> NoId, body |-> NoBody]
NoResult == [kind |-> "-", id |-> NoId, token |-> NoToken, items |-> {}]
Result(kind, id) == [kind |-> kind, id |-> id, token |-> NoToken, items |-> {}]

Idle ==
  [pc |-> "idle", field |-> "-", conversation |-> NoId,
   nickname |-> NoNick, body |-> NoBody, authorization |-> Absent,
   user |-> Null, verdict |-> "-", isExistsInConv |-> Bool(FALSE),
   isExistsUser |-> FALSE, message |-> NoMessage, result |-> NoResult]

\* ------------------------------------------------------------- the store
existsUserId(id) == \E u \in users : u.id = id
userById(id) ==
  IF existsUserId(id) THEN CHOOSE u \in users : u.id = id ELSE Null
existsUserNickname(nickname) == \E u \in users : u.nickname = nickname
userByNickname(nickname) ==
  IF existsUserNickname(nickname)
  THEN CHOOSE u \in users : u.nickname = nickname
  ELSE Null

Max(S) == CHOOSE x \in S : \A y \in S : y <= x
NewUserId == Max({u.id : u \in users} \cup {0}) + 1

\* prisma.createUser({nickname}): nickname is a unique field of User (it is
\* the key of the unique lookup prisma.user({nickname})), so creating a
\* second user with a nickname fails.
createUser(nickname) ==
  IF existsUserNickname(nickname)
  THEN [ok |-> FALSE, user |-> Null]
  ELSE [ok |-> TRUE, user |-> [id |-> NewUserId, nickname |-> nickname]]

\* prisma.createMessage({author: connect, conversation: connect, body}).
createMessage(authorId, conversationId, body) ==
  [id |-> Cardinality(messages) + 1, author |-> authorId,
   conversation |-> conversationId, body |-> body]

\* participants: {connect: {id}}: connecting a connected user changes nothing.
connectParticipant(conversationId, userId) ==
  [participants EXCEPT ![conversationId] = @ \cup {userId}]

\* ------------------------------------------------------------- getUser
\* The existence check and the fetch are two reads of the users, which the
\* server never removes: they are taken in one step.
getUser(authorization) ==
  IF ~authorization.present
  THEN [threw |-> FALSE, user |-> Null]
  ELSE LET token == tokenOf(replaceBearer(authorization))
           decoded == verify(token, APP_SECRET)
       IN IF decoded.threw
          THEN [threw |-> TRUE, user |-> Null]
          ELSE IF ~existsUserId(decoded.id)
               THEN [threw |-> FALSE, user |-> Null]
               ELSE [threw |-> FALSE, user |-> userById(decoded.id)]

\* Mutant: the callback tests userId instead of comparing it with id.
existsUserInConvAnyone(userId, conversationId) ==
  \E id \in participants[conversationId] : userId # Null.id

\* ------------------------------------------------------------- rules
existsUserInConv(userId, conversationId) ==
  \E id \in participants[conversationId] : userId = id

\* Mutant: the rule accepts whatever ctx.user is.
isAuthenticatedAlways(ctxUser) == [threw |-> FALSE, value |-> TRUE]

\* A rule's outcome: a boolean, or a throw.
isAuthenticated(ctxUser) == [threw |-> FALSE, value |-> ctxUser # Null]

\* user.id on a null user throws a TypeError inside the rule.
haveUserAccessToConv(conversationId, ctxUser) ==
  IF ctxUser = Null
  THEN [threw |-> TRUE, value |-> FALSE]
  ELSE [threw |-> FALSE, value |-> existsUserInConv(ctxUser.id, conversationId)]

\* graphql-shield: a rule accepts only when it returns true; a throw is a
\* rejection.  and(...) accepts when every rule accepts.
accepts(outcome) == ~outcome.threw /\ outcome.value
and(a, b) == [threw |-> FALSE, value |-> accepts(a) /\ accepts(b)]
allow == [threw |-> FALSE, value |-> TRUE]

\* The shield table; a field it does not name (signin) is allowed.
permissions(field, conversationId, ctxUser) ==
  CASE field = "Query.me" -> isAuthenticated(ctxUser)
    [] field = "Mutation.sendMessage" ->
         and(isAuthenticated(ctxUser), haveUserAccessToConv(conversationId, ctxUser))
    [] field = "Mutation.joinToConversation" -> isAuthenticated(ctxUser)
    [] field = "Subscription.message" ->
         and(isAuthenticated(ctxUser), haveUserAccessToConv(conversationId, ctxUser))
    [] field = "User.conversations" -> isAuthenticated(ctxUser)
    [] field = "User.messages" -> isAuthenticated(ctxUser)
    [] OTHER -> allow

\* The fields resolved on the way to a field: User fields are reached
\* through Query.me.
path(field) ==
  IF field \in {"User.conversations", "User.messages"}
  THEN {"Query.me", field}
  ELSE {field}

\* Mutant: the resolver runs whatever the rules said.
afterRulesAlways(accepted) == "resolve"

\* The middleware runs the resolver only when the rules accepted.
afterRules(accepted) == IF accepted THEN "resolve" ELSE "done"

\* ------------------------------------------------------------- resolvers
\* joinToConversation: the branch taken on !isExistsInConv.
joinBranch(isExistsInConv) ==
  IF Not(isExistsInConv) THEN "updateConversation" ELSE "conversation"

\* Mutant: nothing is returned for the non-null Conversation.
joinExistingNothing(conversationId) == Result("NullError", Null.id)

\* joinToConversation, the user is taken to be in: the conversation as it is.
joinExisting(conversationId) == Result("Conversation", conversationId)

\* Mutant: the failure of createMessage is swallowed and publish runs.
sendMessageAfterCreateAlways(created) == "publish"

\* sendMessage: publish runs after createMessage resolved; a rejected
\* createMessage leaves the resolver by its throw.
sendMessageAfterCreate(created) == IF created THEN "publish" ELSE "done"

\* Mutant: every message is published on one fixed topic.
sendMessageTopicFixed(conversationId, message) == 0

\* sendMessage: the topic of pubsub.publish(conversation, {message}).
sendMessageTopic(conversationId, message) == conversationId

\* Subscription.message: the topic of pubsub.asyncIterator(conversationId).
subscribeTopic(conversationId) == conversationId

\* Mutant: signin creates the user without looking at isExistsUser.
signinBranchCreate(isExistsUser) == "createUser"

\* signin: fetch the user when isExistsUser, else create it.
signinBranch(isExistsUser) == IF isExistsUser THEN "user" ELSE "createUser"

\* Mutant: the token is signed with a key getUser does not verify with.
signinTokenOtherKey(user, nickname) ==
  sign([id |-> user.id, nickname |-> nickname], OtherSecret)

\* signin: sign({id: user.id, nickname}, process.env.APP_SECRET).
signinToken(user, nickname) ==
  sign([id |-> user.id, nickname |-> nickname], APP_SECRET)

\* ------------------------------------------------------------- pubsub
\* pubsub.asyncIterator(topic): a new listener on the topic.
asyncIterator(sid, topic, conversationId) ==
  /\ subscribers' = subscribers @@
       (sid :> [topic |-> topic, conversation |-> conversationId, active |-> TRUE])
  /\ streams' = streams @@ (sid :> <<>>)

\* pubsub.publish(topic, {message}): pushed to every listener of the topic.
publish(topic, payload) ==
  /\ streams' = [s \in DOMAIN streams |->
                   IF subscribers[s].active /\ subscribers[s].topic = topic
                   THEN Append(streams[s], payload)
                   ELSE streams[s]]
  /\ UNCHANGED subscribers

\* ------------------------------------------------------------- Init
Init ==
  /\ users = InitUsers
  /\ participants = InitParticipants
  /\ messages = {}
  /\ subscribers = << >>
  /\ streams = << >>
  /\ req = EmptyBag
  /\ nops = 0
  /\ issued = {}
  /\ joined = {}

\* ------------------------------------------------------------- actions
\* What a client may send as its credential: nothing, or a token it holds
\* (from an earlier run or from signin) after "Bearer ", bare, or after
\* another scheme.
ClientHeaders ==
  {Absent}
    \cup { Header("Bearer ", t) :
             t \in {AliceToken, GhostToken, ForgedToken} \cup { i.token : i \in issued } }
    \cup { Header("", BobToken), Header("Basic ", AliceToken) }

HeaderNames == {"Authorization", "authorization"}

\* req.get(name) of an HTTP request: the header whatever its case.
requestGet(headerName, value) == value
\* connection.context[name]: the connection parameter of exactly that name.
connectionGet(headerName, value) ==
  IF headerName = "Authorization" THEN value ELSE Absent

InFlight == BagToSet(req)
\* One request moves from q to q2; a new one has q = Idle, a response q2 = Idle.
Step(q, q2) ==
  req' = ((IF q = Idle THEN req ELSE req (-) SetToBag({q}))
            (+) (IF q2 = Idle THEN EmptyBag ELSE SetToBag({q2})))

\* The context function: the request's fields and ctx.user = await getUser.
\* A throw of getUser ends the request before any field is resolved.
Context(field, conversationId, nickname, body, authorization) ==
  LET got == getUser(authorization)
      base == [Idle EXCEPT !.authorization = authorization]
  IN /\ nops < MaxOps
     /\ nops' = nops + 1
     /\ Step(Idle,
          IF got.threw
          THEN [base EXCEPT !.pc = "done", !.result = Result("ContextError", NoId)]
          ELSE [base EXCEPT !.pc = "rules", !.field = field,
                            !.conversation = conversationId,
                            !.nickname = nickname, !.body = body,
                            !.user = got.user])
     /\ UNCHANGED <<store, pubsub, issued, joined>>

Operation(authorization) ==
  \/ \E field \in {"Query.me", "User.conversations", "User.messages"} :
       Context(field, NoId, NoNick, NoBody, authorization)
  \/ \E nickname \in Nicknames :
       Context("Mutation.signin", NoId, nickname, NoBody, authorization)
  \/ \E c \in Conversations, body \in Bodies :
       Context("Mutation.sendMessage", c, NoNick, body, authorization)
  \/ \E c \in Conversations :
       Context("Mutation.joinToConversation", c, NoNick, NoBody, authorization)

ReceiveRequest ==
  \E name \in HeaderNames, value \in ClientHeaders :
    Operation(requestGet(name, value))

ReceiveConnection ==
  \E name \in HeaderNames, value \in ClientHeaders :
    \/ Operation(connectionGet(name, value))
    \/ \E c \in Conversations :
         Context("Subscription.message", c, NoNick, NoBody,
                 connectionGet(name, value))

\* The shield middleware: every rule on the way to the field.
Rules(q) ==
  LET accepted == \A f \in path(q.field) :
                    accepts(permissions(f, q.conversation, q.user))
      judged == [q EXCEPT !.verdict = IF accepted THEN "accept" ELSE "reject"]
  IN /\ q.pc = "rules"
     /\ Step(q, IF afterRules(accepted) = "resolve"
                THEN [judged EXCEPT !.pc = "resolve"]
                ELSE [judged EXCEPT !.pc = "done",
                                    !.result = Result("NotAuthorised", NoId)])
     /\ UNCHANGED <<store, pubsub, nops, issued, joined>>

\* Query.me, and the User fields under it.
ResolveQuery(q) ==
  /\ q.pc = "resolve"
  /\ q.field \in {"Query.me", "User.conversations", "User.messages"}
  /\ Step(q, [q EXCEPT !.pc = "done", !.result =
       CASE q.field = "Query.me" -> Result("User", q.user.id)
         [] q.field = "User.conversations" ->
              [Result("Conversations", q.user.id) EXCEPT !.items =
                 {c \in Conversations : q.user.id \in participants[c]}]
         [] OTHER ->
              [Result("Messages", q.user.id) EXCEPT !.items =
                 {m.id : m \in {x \in messages : x.author = q.user.id}}]])
  /\ UNCHANGED <<store, pubsub, nops, issued, joined>>

\* joinToConversation up to its await: existsUserInConv is called and its
\* Promise, not its value, is tested.
JoinCall(q) ==
  LET isExistsInConv == Promise(existsUserInConv(q.user.id, q.conversation)) IN
  /\ q.pc = "resolve"
  /\ q.field = "Mutation.joinToConversation"
  /\ Step(q, [q EXCEPT !.pc = joinBranch(isExistsInConv),
                       !.isExistsInConv = isExistsInConv])
  /\ UNCHANGED <<store, pubsub, nops, issued, joined>>

\* joinToConversation: the awaited store call returns.
JoinReturn(q) ==
  /\ q.pc \in {"updateConversation", "conversation"}
  /\ IF q.pc = "updateConversation"
     THEN /\ participants' = connectParticipant(q.conversation, q.user.id)
          /\ Step(q, [q EXCEPT !.pc = "done",
                               !.result = Result("Conversation", q.conversation)])
     ELSE /\ UNCHANGED participants
          /\ Step(q, [q EXCEPT !.pc = "done",
                               !.result = joinExisting(q.conversation)])
  /\ joined' = joined \cup {<<q.user.id, q.conversation>>}
  /\ UNCHANGED <<users, messages, pubsub, nops, issued>>

\* sendMessage: await prisma.createMessage; the store may refuse the call.
SendCreate(q) ==
  LET message == createMessage(q.user.id, q.conversation, q.body) IN
  /\ q.pc = "resolve"
  /\ q.field = "Mutation.sendMessage"
  /\ \E created \in BOOLEAN :
       /\ messages' = IF created THEN messages \cup {message} ELSE messages
       /\ Step(q, IF sendMessageAfterCreate(created) = "publish"
                  THEN [q EXCEPT !.pc = "publish", !.message = message]
                  ELSE [q EXCEPT !.pc = "done",
                                 !.result = Result("StoreError", NoId)])
  /\ UNCHANGED <<users, participants, pubsub, nops, issued, joined>>

\* sendMessage after the await: publish, then return the message.
SendPublish(q) ==
  /\ q.pc = "publish"
  /\ publish(sendMessageTopic(q.conversation, q.message), q.message)
  /\ Step(q, [q EXCEPT !.pc = "done", !.result = Result("Message", q.message.id)])
  /\ UNCHANGED <<store, nops, issued, joined>>

\* signin: await prisma.$exists.user({nickname}).
SigninExists(q) ==
  /\ q.pc = "resolve"
  /\ q.field = "Mutation.signin"
  /\ Step(q, [q EXCEPT !.isExistsUser = existsUserNickname(q.nickname),
                       !.pc = signinBranch(existsUserNickname(q.nickname))])
  /\ UNCHANGED <<store, pubsub, nops, issued, joined>>

\* signin: the awaited prisma.user or prisma.createUser returns, the token
\* is signed and the response is built.
SigninUser(q) ==
  /\ q.pc \in {"user", "createUser"}
  /\ LET got == IF q.pc = "user"
                THEN [ok |-> TRUE, user |-> userByNickname(q.nickname)]
                ELSE createUser(q.nickname)
         token == signinToken(got.user, q.nickname)
     IN IF got.ok
        THEN /\ users' = users \cup {got.user}
             /\ issued' = issued \cup {[token |-> token, id |-> got.user.id]}
             /\ Step(q, [q EXCEPT !.pc = "done", !.result =
                  [Result("SignInResponse", got.user.id) EXCEPT !.token = token]])
        ELSE /\ UNCHANGED <<users, issued>>
             /\ Step(q, [q EXCEPT !.pc = "done",
                                  !.result = Result("StoreError", NoId)])
  /\ UNCHANGED <<participants, messages, pubsub, nops, joined>>

\* Subscription.message: subscribe returns the topic's async iterator.
Subscribe(q) ==
  LET sid == Cardinality(DOMAIN subscribers) + 1 IN
  /\ q.pc = "resolve"
  /\ q.field = "Subscription.message"
  /\ asyncIterator(sid, subscribeTopic(q.conversation), q.conversation)
  /\ Step(q, [q EXCEPT !.pc = "done", !.result = Result("AsyncIterator", sid)])
  /\ UNCHANGED <<store, nops, issued, joined>>

\* The subscriber's connection closes: its listener is removed.
Unsubscribe(sid) ==
  /\ subscribers[sid].active
  /\ subscribers' = [subscribers EXCEPT ![sid].active = FALSE]
  /\ UNCHANGED <<store, streams, req, nops, issued, joined>>

\* The response is sent.
Respond(q) ==
  /\ q.pc = "done"
  /\ Step(q, Idle)
  /\ UNCHANGED <<store, pubsub, nops, issued, joined>>

Next ==
  \/ ReceiveRequest
  \/ ReceiveConnection
  \/ \E q \in InFlight : Rules(q)
  \/ \E q \in InFlight : ResolveQuery(q)
  \/ \E q \in InFlight : JoinCall(q)
  \/ \E q \in InFlight : JoinReturn(q)
  \/ \E q \in InFlight : SendCreate(q)
  \/ \E q \in InFlight : SendPublish(q)
  \/ \E q \in InFlight : SigninExists(q)
  \/ \E q \in InFlight : SigninUser(q)
  \/ \E q \in InFlight : Subscribe(q)
  \/ \E q \in InFlight : Respond(q)
  \/ \E sid \in DOMAIN subscribers : Unsubscribe(sid)

Spec == Init /\ [][Next]_vars

\* ------------------------------------------------------------- claims
\* The request q took this step / the request q2 is what a request became.
Acted(q) == CopiesIn(q, req') < CopiesIn(q, req)
Arrived(q2) == CopiesIn(q2, req') > CopiesIn(q2, req)

Rejected(q) ==
  [q EXCEPT !.pc = "done", !.verdict = "reject",
            !.result = Result("NotAuthorised", NoId)]

AuthenticatedFields ==
  {"Query.me", "Mutation.sendMessage", "Mutation.joinToConversation",
   "Subscription.message", "User.conversations", "User.messages"}
MemberFields == {"Mutation.sendMessage", "Subscription.message"}

\* C1: a request without an Authorization value gets ctx.user = null (and
\* the context is built), and with a null ctx.user every field gated by
\* isAuthenticated ends rejected by the rules without entering its
\* resolver; the membership rule itself rejects a null user.
C1_NullIdentityRejected ==
  /\ \A q \in InFlight :
       /\ ~q.authorization.present =>
            q.user = Null /\ q.result.kind # "ContextError"
       /\ (q.user = Null /\ q.field \in AuthenticatedFields /\ q.pc # "rules") =>
            q = Rejected(q)
  /\ \A c \in Conversations : ~accepts(haveUserAccessToConv(c, Null))

C1_Witness ==
  /\ \E q \in InFlight :
       /\ ~q.authorization.present
       /\ q.field = "Subscription.message"
       /\ q.result.kind = "NotAuthorised"
  /\ \E q \in InFlight :
       /\ ~q.authorization.present
       /\ q.field = "User.messages"
       /\ q.result.kind = "NotAuthorised"

\* C2: a request whose Authorization value is present but does not verify
\* gets ctx.user = null and reaches the rules: its context is built.
C2_UnverifiableIsAnonymous ==
  \A q \in InFlight :
    (/\ q.authorization.present
     /\ verify(tokenOf(replaceBearer(q.authorization)), APP_SECRET).threw)
    => (q.result.kind # "ContextError" /\ q.field # "-" /\ q.user = Null)

\* C3: when the rules of sendMessage or of the message subscription are
\* evaluated for a user who is not, in the store as it is at that step, a
\* participant of the conversation, the request ends rejected.
C3_NonMemberRejected ==
  [][\A q \in InFlight :
       (/\ Acted(q)
        /\ q.pc = "rules"
        /\ q.field \in MemberFields
        /\ (q.user = Null \/ q.user.id \notin participants[q.conversation]))
       => Arrived(Rejected(q))]_vars

C3_Witness ==
  /\ \E q \in InFlight :
       /\ q.field = "Mutation.sendMessage"
       /\ q.user # Null
       /\ q.user.id \notin participants[q.conversation]
       /\ q.result.kind = "NotAuthorised"
  /\ \E q \in InFlight :
       /\ q.field = "Subscription.message"
       /\ q.user # Null
       /\ q.user.id \notin participants[q.conversation]
       /\ q.result.kind = "NotAuthorised"

\* C4: once a joinToConversation of an authenticated user has returned
\* the conversation, the user is one of its participants.
C4_JoinAddsParticipant ==
  \A q \in InFlight :
    (/\ q.field = "Mutation.joinToConversation"
     /\ q.pc = "done"
     /\ q.result.kind = "Conversation")
    => q.user.id \in participants[q.conversation]

\* C5: once a joinToConversation of a user for a conversation has
\* completed, no step of another one of the same user for the same
\* conversation (started before or after) changes a participant set, and
\* it returns the conversation, not an error.
C5_JoinIdempotent ==
  [][\A q \in InFlight :
       (/\ Acted(q)
        /\ q.field = "Mutation.joinToConversation"
        /\ <<q.user.id, q.conversation>> \in joined)
       => /\ participants' = participants
          /\ q.pc \in {"updateConversation", "conversation"} =>
               Arrived([q EXCEPT !.pc = "done",
                                 !.result = Result("Conversation", q.conversation)])]_vars

C5_Witness ==
  \E q \in InFlight :
    /\ q.field = "Mutation.joinToConversation"
    /\ q.pc = "done"
    /\ q.result.kind = "Conversation"
    /\ \E p \in InFlight :
         /\ p.field = "Mutation.joinToConversation"
         /\ p.pc = "conversation"
         /\ p.user = q.user
         /\ p.conversation = q.conversation

\* C6: the publish of a sendMessage to conversation T appends its message
\* to the stream of every subscription of message(T) that is open at that
\* step and to no other stream; nothing else appends to a stream, and a
\* subscription starts with an empty stream.
C6_TopicDelivery ==
  [][/\ \A q \in InFlight :
          (Acted(q) /\ q.pc = "publish") =>
            \A s \in DOMAIN streams :
              streams'[s] =
                IF subscribers[s].active /\ subscribers[s].conversation = q.conversation
                THEN Append(streams[s], q.message)
                ELSE streams[s]
     /\ (\E s \in DOMAIN streams : streams'[s] # streams[s]) =>
          \E q \in InFlight : Acted(q) /\ q.pc = "publish"
     /\ \A s \in DOMAIN streams' \ DOMAIN streams : streams'[s] = <<>>]_vars

C6_Witness ==
  \E s \in DOMAIN streams :
    /\ subscribers[s].active
    /\ Len(streams[s]) = 1
    /\ streams[s][1].conversation = subscribers[s].conversation

\* C7: a request the rules rejected is done, with the authorization error,
\* and never in a resolver; the step that rejects it changes neither the
\* store nor the topic bus.
C7_RejectionNoSideEffect ==
  [][/\ \A q \in BagToSet(req') : q.verdict = "reject" => q = Rejected(q)
     /\ \A q \in InFlight :
          (Acted(q) /\ (q.verdict = "reject" \/ Arrived(Rejected(q))))
          => UNCHANGED <<store, pubsub>>]_vars

C7_Witness ==
  /\ \E q \in InFlight :
       /\ q.field = "Mutation.sendMessage"
       /\ q.verdict = "reject"
       /\ q.user = Null
  /\ \E q \in InFlight :
       /\ q.field = "Mutation.joinToConversation"
       /\ q.verdict = "reject"

\* C8: a request that presents "Bearer " and a token signin returned gets
\* as ctx.user the user whose id signin returned (the users of the store
\* are never removed).
C8_CredentialRoundTrip ==
  \A q \in InFlight : \A i \in issued :
    (q.authorization = Header("Bearer ", i.token) /\ existsUserId(i.id))
    => (q.result.kind # "ContextError" /\ q.user.id = i.id)

C8_Witness ==
  \E q \in InFlight : \E i \in issued :
    /\ q.authorization = Header("Bearer ", i.token)
    /\ i.id \notin {u.id : u \in InitUsers}
    /\ q.user.id = i.id
    /\ q.result.kind = "User"

\* C9: every event in a subscription's stream is a Message of the store,
\* of the subscription's conversation; a sendMessage that is about to
\* publish holds a stored Message of its conversation whose author is its
\* ctx.user; a sendMessage whose createMessage failed holds no message.
C9_PersistBeforePublish ==
  /\ \A s \in DOMAIN streams : \A k \in 1..Len(streams[s]) :
       /\ streams[s][k] \in messages
       /\ streams[s][k].conversation = subscribers[s].conversation
  /\ \A q \in InFlight :
       /\ q.pc = "publish" =>
            /\ q.message \in messages
            /\ q.message.author = q.user.id
            /\ q.message.conversation = q.conversation
       /\ q.result.kind = "StoreError" => q.message = NoMessage

C9_Witness ==
  \E q \in InFlight :
    /\ q.field = "Mutation.sendMessage"
    /\ q.result.kind = "Message"
    /\ q.message \in messages
    /\ \E s \in DOMAIN streams : streams[s] = <<q.message>>

====
